---- MODULE Spec2Model ----
(***************************************************************************)
(* Abacus Depreciation: the validation engine (lib/validation.ts), the     *)
(* straight-line schedule generator and the asset lifecycle coordinator    *)
(* (create / update / dispose / reinstate / delete) over the persisted     *)
(* assets and depreciation_schedule tables.                                *)
(*                                                                         *)
(* Money is a fixed-point decimal counted in units of its last stored      *)
(* digit: additions and subtractions are exact, a division is rounded to   *)
(* that digit.  A date string "YYYY-MM-DD" is a record: kind "date" with   *)
(* the index of the calendar day it names, or kind "empty", "malformed",   *)
(* "undefined" for the strings that name no day.                           *)
(***************************************************************************)
EXTENDS Integers, Sequences, FiniteSets, TLC

VARIABLES clock, assets, depreciation_schedule, next_id, last, full_before,
          request, lock, txn, seen, categories, next_category_id,
          file_rows, import_result, view, editingAsset, errors, disposing, sent,
          numberInput

vars == <<clock, assets, depreciation_schedule, next_id, last, full_before,
          request, lock, txn, seen, categories, next_category_id,
          file_rows, import_result, view, editingAsset, errors, disposing, sent,
          numberInput>>

\* what the lifecycle operations, run one at a time, leave alone: the request
\* under validation, the lock of the connection, the writes in flight and the
\* results of the reads
aside == <<request, lock, txn, seen>>

\* the categories table
category_table == <<categories, next_category_id>>

\* the rows of the imported file and the result of the import
import_file == <<file_rows, import_result>>

\* the asset form: the asset under edit, the field errors the form shows and
\* the dispose dialog, with the command the frontend sent last, and a number
\* input on screen
forms == <<editingAsset, errors, disposing, sent, numberInput>>

\* the state of the frontend: what the view on screen shows, and the forms
frontend == <<view, forms>>

(***************************************************************************)
(* Bounds of the model.                                                    *)
(***************************************************************************)
BaseYear == 2020
DaysPerYear == 2
UnitsPerDay == 2
MaxYears == 4
MaxCost == 4
MaxLife == 3
MaxId == 1
LifeUnits == 2
MaxCategoryId == 2
MaxRows == 3
MaxInput == 3

(***************************************************************************)
(* Values.                                                                 *)
(***************************************************************************)
Some(v) == [some |-> TRUE, val |-> v]
None == [some |-> FALSE, val |-> 0]

Date(y, k) == [kind |-> "date", day |-> (y - BaseYear) * DaysPerYear + k]
DayDate(d) == [kind |-> "date", day |-> d]
EmptyDate == [kind |-> "empty", day |-> 0]
MalformedDate == [kind |-> "malformed", day |-> 0]
UndefinedDate == [kind |-> "undefined", day |-> 0]

\* calendar year of a "YYYY-MM-DD" string that names a day
YearOf(d) == BaseYear + (d.day \div DaysPerYear)

\* new Date("YYYY-MM-DD"): midnight UTC of the day, as an instant
DateInstant(d) == d.day * UnitsPerDay

\* !val of an optional string
Falsy(d) == d.kind \in {"undefined", "empty"}

RECURSIVE SumSeq(_, _)
SumSeq(s, n) == IF n = 0 THEN 0 ELSE s[n] + SumSeq(s, n - 1)

RECURSIVE Trim(_)
Trim(s) ==
  IF s = <<>> THEN s
  ELSE IF Head(s) = " " THEN Trim(Tail(s))
  ELSE IF s[Len(s)] = " " THEN Trim(SubSeq(s, 1, Len(s) - 1))
  ELSE s

(***************************************************************************)
(* Validation engine (lib/validation.ts).                                  *)
(***************************************************************************)
NameMax == 200
DescriptionMax == 500
NotesMax == 2000
CategoryNameMax == 100
PROPERTY_CLASSES == {"3", "5", "7", "10", "15", "20", "27.5", "39"}

\* the caller's clock: `now` is the current instant (UTC), `tz` the offset of
\* local time from UTC, both in units of 1/UnitsPerDay day
EndOfToday(c) ==
  (((c.now + c.tz) \div UnitsPerDay) + 1) * UnitsPerDay - 1 - c.tz

isValidDate(dateStr) == dateStr.kind = "date"

isNotFutureDate(dateStr, c) ==
  /\ dateStr.kind = "date"
  /\ DateInstant(dateStr) <= EndOfToday(c)

\* (s) => s?.trim() || undefined, on an optional string
TrimmedOrUndefined(s) ==
  IF s.some /\ Trim(s.val) # <<>> THEN Some(Trim(s.val)) ELSE None

\* z.string().max(n).optional().nullable(): the length of the string as given
MaxLength(s, n) == ~s.some \/ Len(s.val) <= n

\* !val || PROPERTY_CLASSES.includes(val), on an optional string
PropertyClassOk(val) == ~val.some \/ val.val = "" \/ val.val \in PROPERTY_CLASSES

Issue(path, message) == <<[path |-> path, message |-> message]>>
Check(ok, path, message) == IF ok THEN <<>> ELSE Issue(path, message)

DisposeAnyDay(serviceStr, disposeStr) ==
  /\ serviceStr.kind = "date"
  /\ disposeStr.kind = "date"

\* disposeDate >= serviceDate on two parsed Dates (false when either is NaN)
DisposeOnOrAfterService(serviceStr, disposeStr) ==
  /\ serviceStr.kind = "date"
  /\ disposeStr.kind = "date"
  /\ DateInstant(disposeStr) >= DateInstant(serviceStr)

UsefulLifeAnyFraction(n) == TRUE

\* z.number().int(): a number of years, counted in 1/LifeUnits year, is whole
UsefulLifeWhole(n) == n % LifeUnits = 0

UsefulLifeAnyNumber(n) == TRUE

\* z.number().min(1)
UsefulLifeAtLeastOne(n) == n >= LifeUnits

SalvageAnyAmount(data) == TRUE

SalvageWithinCost(data) == data.salvage_value <= data.cost

AssetSchemaIssues(a, c) ==
     Check(Len(Trim(a.name)) > 0, "name", "Asset name is required")
  \o Check(Len(Trim(a.name)) <= NameMax, "name",
           "Asset name must be 200 characters or less")
  \o Check(MaxLength(a.description, DescriptionMax), "description",
           "Description must be 500 characters or less")
  \o Check(a.date_placed_in_service.kind # "empty", "date_placed_in_service",
           "Date placed in service is required")
  \o Check(isValidDate(a.date_placed_in_service), "date_placed_in_service",
           "Invalid date format (use YYYY-MM-DD)")
  \o Check(isNotFutureDate(a.date_placed_in_service, c), "date_placed_in_service",
           "Date cannot be in the future")
  \o Check(a.cost > 0, "cost", "Cost must be greater than $0")
  \o Check(a.salvage_value >= 0, "salvage_value", "Salvage value cannot be negative")
  \o Check(UsefulLifeWhole(a.useful_life_years), "useful_life_years",
           "Useful life must be a whole number")
  \o Check(UsefulLifeAtLeastOne(a.useful_life_years), "useful_life_years",
           "Useful life must be at least 1 year")
  \o Check(PropertyClassOk(a.property_class), "property_class", "Invalid property class")
  \o Check(MaxLength(a.notes, NotesMax), "notes", "Notes must be 2000 characters or less")
  \o Check(Falsy(a.disposed_date) \/ isValidDate(a.disposed_date), "disposed_date",
           "Invalid disposal date format")
  \o Check(Falsy(a.disposed_date) \/ isNotFutureDate(a.disposed_date, c),
           "disposed_date", "Disposal date cannot be in the future")
  \o Check(~a.disposed_value.some \/ a.disposed_value.val >= 0, "disposed_value",
           "Disposal value cannot be negative")
  \o Check(SalvageWithinCost(a), "salvage_value", "Salvage value cannot exceed cost")
  \o Check(Falsy(a.disposed_date)
             \/ DisposeOnOrAfterService(a.date_placed_in_service, a.disposed_date),
           "disposed_date",
           "Disposal date must be on or after the date placed in service")

DisposeSchemaIssues(d, c) ==
     Check(d.disposed_date.kind # "empty", "disposed_date", "Disposal date is required")
  \o Check(isValidDate(d.disposed_date), "disposed_date", "Invalid date format")
  \o Check(isNotFutureDate(d.disposed_date, c), "disposed_date",
           "Disposal date cannot be in the future")
  \o Check(~d.disposed_value.some \/ d.disposed_value.val >= 0, "disposed_value",
           "Disposal value cannot be negative")
  \o Check(DisposeOnOrAfterService(d.date_placed_in_service, d.disposed_date),
           "disposed_date",
           "Disposal date must be on or after the date placed in service")

zodErrorsToMapUnkeyed(issues) == [p \in {} |-> ""]

\* field -> first message reported for that field
zodErrorsToMap(issues) ==
  [p \in {issues[i].path : i \in DOMAIN issues} |->
     LET first == CHOOSE i \in DOMAIN issues :
                    /\ issues[i].path = p
                    /\ \A j \in DOMAIN issues : issues[j].path = p => i <= j
     IN issues[first].message]

NoErrors == zodErrorsToMap(<<>>)

validateAsset(asset, c) ==
  LET issues == AssetSchemaIssues(asset, c) IN
  IF issues = <<>>
    THEN [success |-> TRUE,
          data |-> [asset EXCEPT !.name = Trim(asset.name),
                                 !.description = TrimmedOrUndefined(asset.description),
                                 !.notes = TrimmedOrUndefined(asset.notes)],
          errors |-> NoErrors]
    ELSE [success |-> FALSE, data |-> asset, errors |-> zodErrorsToMap(issues)]

CategorySchemaIssues(category) ==
     Check(Len(Trim(category.name)) > 0, "name", "Category name is required")
  \o Check(Len(Trim(category.name)) <= CategoryNameMax, "name",
           "Category name must be 100 characters or less")
  \o Check(~category.default_useful_life.some
             \/ UsefulLifeWhole(category.default_useful_life.val),
           "default_useful_life", "Default useful life must be a whole number")
  \o Check(~category.default_useful_life.some
             \/ UsefulLifeAtLeastOne(category.default_useful_life.val),
           "default_useful_life", "Default useful life must be at least 1 year")
  \o Check(PropertyClassOk(category.default_property_class), "default_property_class",
           "Invalid property class")

validateCategory(category) ==
  LET issues == CategorySchemaIssues(category) IN
  IF issues = <<>>
    THEN [success |-> TRUE, data |-> [category EXCEPT !.name = Trim(category.name)],
          errors |-> NoErrors]
    ELSE [success |-> FALSE, data |-> category, errors |-> zodErrorsToMap(issues)]

validateDispose(disposedDate, disposedValue, datePlacedInService, c) ==
  LET d == [disposed_date |-> disposedDate, disposed_value |-> disposedValue,
            date_placed_in_service |-> datePlacedInService]
      issues == DisposeSchemaIssues(d, c) IN
  IF issues = <<>>
    THEN [success |-> TRUE,
          data |-> [disposed_date |-> disposedDate, disposed_value |-> disposedValue],
          errors |-> NoErrors]
    ELSE [success |-> FALSE,
          data |-> [disposed_date |-> disposedDate, disposed_value |-> disposedValue],
          errors |-> zodErrorsToMap(issues)]

(***************************************************************************)
(* Schedule generator: straight line, whole years, truncated at disposal.  *)
(***************************************************************************)
IsDisposed(asset) == ~Falsy(asset.disposed_date)

\* (cost - salvage_value) / useful_life_years, computed once
annual_expense(asset) ==
  (asset.cost - asset.salvage_value) \div asset.useful_life_years

depreciation_expense_uniform(asset, n, beginning) == annual_expense(asset)

\* expense of the n-th scheduled year; the final year takes what is left
depreciation_expense(asset, n, beginning) ==
  IF n = asset.useful_life_years
    THEN beginning - asset.salvage_value
    ELSE annual_expense(asset)

RECURSIVE full_schedule_from(_, _, _, _)
full_schedule_from(asset, n, beginning, accumulated) ==
  IF n > asset.useful_life_years THEN <<>>
  ELSE LET expense == depreciation_expense(asset, n, beginning)
           entry == [year |-> YearOf(asset.date_placed_in_service) + n - 1,
                     beginning_book_value |-> beginning,
                     depreciation_expense |-> expense,
                     accumulated_depreciation |-> accumulated + expense,
                     ending_book_value |-> beginning - expense]
       IN <<entry>> \o full_schedule_from(asset, n + 1, entry.ending_book_value,
                                          entry.accumulated_depreciation)

full_schedule(asset) == full_schedule_from(asset, 1, asset.cost, 0)

KeptAfterDisposalStrict(entry, asset) == entry.year < YearOf(asset.disposed_date)

\* an entry survives disposal when its year is not after the disposal year
KeptAfterDisposal(entry, asset) == entry.year <= YearOf(asset.disposed_date)

truncate_at_disposal(entries, asset) ==
  LET Keep(e) == KeptAfterDisposal(e, asset) IN SelectSeq(entries, Keep)

generate_schedule(asset, as_of_year) ==
  IF IsDisposed(asset)
    THEN truncate_at_disposal(full_schedule(asset), asset)
    ELSE full_schedule(asset)

(***************************************************************************)
(* Asset lifecycle coordinator over the persisted store.                   *)
(***************************************************************************)
CurrentYear(c) == BaseYear + (((c.now + c.tz) \div UnitsPerDay) \div DaysPerYear)

Without(f, id) == [i \in DOMAIN f \ {id} |-> f[i]]
With(f, id, v) == [i \in DOMAIN f \cup {id} |-> IF i = id THEN v ELSE f[i]]

\* history: the full schedule an active asset had when it was last disposed of,
\* and how many of its entries the disposal kept
NoSnapshot == [id |-> 0, schedule |-> <<>>, kept |-> 0]

Outcome(op, id, result) ==
  [op |-> op, id |-> id, success |-> result.success, errors |-> result.errors]

Done(op, id) == [op |-> op, id |-> id, success |-> TRUE, errors |-> NoErrors]

\* the row the store keeps for a validated asset: useful_life_years is an
\* INTEGER column, the number of whole years
Stored(data) == [data EXCEPT !.useful_life_years = @ \div LifeUnits]

FinancialFieldsChangedWithDisposal(old, new) ==
  \/ old.cost # new.cost
  \/ old.salvage_value # new.salvage_value
  \/ old.useful_life_years # new.useful_life_years
  \/ old.date_placed_in_service # new.date_placed_in_service
  \/ old.disposed_date # new.disposed_date

\* update regenerates only when one of these four fields differs
FinancialFieldsChanged(old, new) ==
  \/ old.cost # new.cost
  \/ old.salvage_value # new.salvage_value
  \/ old.useful_life_years # new.useful_life_years
  \/ old.date_placed_in_service # new.date_placed_in_service

create_asset(candidate) ==
  LET result == validateAsset(candidate, clock)
      row == Stored(result.data) IN
  IF result.success
    THEN /\ next_id <= MaxId
         /\ assets' = With(assets, next_id, row)
         /\ depreciation_schedule' =
              With(depreciation_schedule, next_id,
                   generate_schedule(row, CurrentYear(clock)))
         /\ next_id' = next_id + 1
         /\ last' = Outcome("create", next_id, result)
         /\ full_before' = NoSnapshot
         /\ UNCHANGED clock
    ELSE /\ last' = Outcome("create", 0, result)
         /\ full_before' = NoSnapshot
         /\ UNCHANGED <<clock, assets, depreciation_schedule, next_id>>

update_asset(id, candidate) ==
  /\ id \in DOMAIN assets
  /\ LET result == validateAsset(candidate, clock)
         row == Stored(result.data) IN
     /\ last' = Outcome("update", id, result)
     /\ full_before' = NoSnapshot
     /\ IF result.success
          THEN /\ assets' = With(assets, id, row)
               /\ depreciation_schedule' =
                    IF FinancialFieldsChanged(assets[id], row)
                      THEN With(depreciation_schedule, id,
                                generate_schedule(row, CurrentYear(clock)))
                      ELSE depreciation_schedule
          ELSE UNCHANGED <<assets, depreciation_schedule>>
     /\ UNCHANGED <<clock, next_id>>

dispose_asset(id, disposedDate, disposedValue) ==
  /\ id \in DOMAIN assets
  /\ LET result == validateDispose(disposedDate, disposedValue,
                                   assets[id].date_placed_in_service, clock)
         disposed == [assets[id] EXCEPT !.disposed_date = result.data.disposed_date,
                                        !.disposed_value = result.data.disposed_value]
     IN
     /\ last' = Outcome("dispose", id, result)
     /\ IF result.success
          THEN /\ assets' = With(assets, id, disposed)
               /\ depreciation_schedule' =
                    With(depreciation_schedule, id,
                         generate_schedule(disposed, CurrentYear(clock)))
               /\ full_before' =
                    IF /\ ~IsDisposed(assets[id])
                       /\ Len(depreciation_schedule[id]) = assets[id].useful_life_years
                      THEN [id |-> id, schedule |-> depreciation_schedule[id],
                            kept |-> Len(generate_schedule(disposed, CurrentYear(clock)))]
                      ELSE NoSnapshot
          ELSE /\ full_before' = NoSnapshot
               /\ UNCHANGED <<assets, depreciation_schedule>>
     /\ UNCHANGED <<clock, next_id>>

reinstated_schedule_kept(asset, old) == old

\* the schedule reinstate persists for an asset whose disposal fields are cleared
reinstated_schedule(asset, old) == generate_schedule(asset, 0)

reinstate_asset(id) ==
  /\ id \in DOMAIN assets
  /\ LET active == [assets[id] EXCEPT !.disposed_date = UndefinedDate,
                                      !.disposed_value = None] IN
     /\ assets' = With(assets, id, active)
     /\ depreciation_schedule' =
          With(depreciation_schedule, id,
               reinstated_schedule(active, depreciation_schedule[id]))
  /\ last' = Done("reinstate", id)
  /\ UNCHANGED <<clock, next_id, full_before>>

on_delete_restrict(schedule, id) == schedule

\* depreciation_schedule.asset_id REFERENCES assets(id) ON DELETE CASCADE
on_delete_cascade(schedule, id) == Without(schedule, id)

delete_asset(id) ==
  /\ id \in DOMAIN assets
  /\ assets' = Without(assets, id)
  /\ depreciation_schedule' = on_delete_cascade(depreciation_schedule, id)
  /\ last' = Done("delete", id)
  /\ full_before' = NoSnapshot
  /\ UNCHANGED <<clock, next_id>>

(***************************************************************************)
(* Inputs.                                                                 *)
(***************************************************************************)
\* an asset candidate, with the fields the validation of the schedule inputs,
\* the generator and the lifecycle read
Candidate(name, service, cost, salvage, life, disposed, dvalue) ==
  [name |-> name, description |-> None, category_id |-> None,
   date_placed_in_service |-> service, cost |-> cost, salvage_value |-> salvage,
   useful_life_years |-> life, property_class |-> None, notes |-> None,
   disposed_date |-> disposed, disposed_value |-> dvalue]

\* useful lives as the form holds them: whole years, and one fraction of a year
Years(n) == n * LifeUnits

Today == Date(BaseYear + MaxYears - 1, 0)
Tomorrow == Date(BaseYear + MaxYears - 1, 1)

Clocks == {[now |-> DateInstant(Today), tz |-> 0]}

\* candidates of the generator specification: every day up to tomorrow,
\* every cost, salvage value and life up to the bounds, and the invalid values
GenDates == {Date(BaseYear + y, k) : y \in 0 .. MaxYears - 2, k \in 0 .. DaysPerYear - 1}
              \cup {Today, Tomorrow}

GenCandidates ==
  {Candidate(n, s, c, v, l, d, dv) :
     n \in {<<"a">>, <<" ">>},
     s \in {Date(BaseYear, 0), Date(BaseYear, 1), Date(BaseYear + 1, 0), Tomorrow,
            MalformedDate},
     c \in 0 .. MaxCost, v \in 0 .. MaxCost,
     l \in {Years(k) : k \in -1 .. MaxLife} \cup {Years(1) + 1},
     d \in GenDates \cup {UndefinedDate},
     dv \in {None, Some(1)}}

\* candidates of the lifecycle specification: one asset and the four assets
\* that differ from it in exactly one of cost, salvage value, life and service
\* date, each active or disposed of inside or after its schedule, and one
\* candidate the validation engine rejects for its cost
LifeDisposalDates == {Date(BaseYear + 1, 1), Today}
EarlyDate == Date(BaseYear, 0)

LifeDisposals ==
  {[date |-> UndefinedDate, value |-> None]}
    \cup {[date |-> d, value |-> Some(1)] : d \in LifeDisposalDates}

LifeFinancials ==
  LET base == [service |-> Date(BaseYear, 1), cost |-> MaxCost, salvage |-> 0,
               life |-> MaxLife] IN
  {base, [base EXCEPT !.cost = MaxCost - 1], [base EXCEPT !.salvage = 1],
   [base EXCEPT !.life = MaxLife - 1], [base EXCEPT !.service = Date(BaseYear + 1, 0)]}

LifeCandidates ==
  {Candidate(<<"a">>, f.service, f.cost, f.salvage, Years(f.life), d.date, d.value) :
     f \in LifeFinancials, d \in LifeDisposals}
    \cup {Candidate(<<"a">>, Date(BaseYear, 1), 0, 0, Years(MaxLife), UndefinedDate,
                     None)}

NoRequest == Candidate(<<>>, EmptyDate, 0, 0, 0, UndefinedDate, None)

(***************************************************************************)
(* The shared connection: every command locks it for its whole span, and a *)
(* regenerate-and-replace is one transaction of row writes.                *)
(***************************************************************************)
Writers == {"w1", "w2"}
Readers == {"r1", "r2"}

Store == [assets |-> assets, schedule |-> depreciation_schedule, next_id |-> next_id]
EmptyStore == [assets |-> <<>>, schedule |-> <<>>, next_id |-> 1]

Idle ==
  [pc |-> "idle", op |-> "none", id |-> 0, row |-> NoRequest, regenerate |-> FALSE,
   entries |-> <<>>, before |-> EmptyStore]

\* the result of the latest read command
Unread == [reader |-> "none", store |-> EmptyStore]

LockIgnored(l) == TRUE

\* the mutex of the connection is free
LockFree(l) == l = "none"

\* the opaque failure a storage error surfaces as; the model notes the step
\* of the transaction the store failed under
Failed(op, id, step) ==
  [op |-> op, id |-> id, success |-> FALSE,
   errors |-> [k \in {"storage"} |-> step]]

\* no response yet: the command holds the connection
Pending(id) == [op |-> "pending", id |-> id, success |-> FALSE, errors |-> NoErrors]

\* the writes a validated operation is going to make
Plan(op, id, row, regenerate) ==
  [pc |-> "write_asset", op |-> op, id |-> id, row |-> row, regenerate |-> regenerate,
   entries |-> IF regenerate THEN generate_schedule(row, CurrentYear(clock)) ELSE <<>>,
   before |-> Store]

\* a writer takes the lock, validates and generates; a rejected request
\* gives the lock back at once
begin(w, op, id, result, row, regenerate) ==
  /\ LockFree(lock)
  /\ txn[w].pc = "idle"
  /\ IF result.success
       THEN /\ lock' = w
            /\ txn' = [txn EXCEPT ![w] = Plan(op, id, row, regenerate)]
            /\ last' = Pending(id)
       ELSE /\ last' = Outcome(op, id, result)
            /\ UNCHANGED <<lock, txn>>
  /\ seen' = Unread
  /\ UNCHANGED <<clock, assets, depreciation_schedule, next_id, full_before, request,
                 category_table, import_file, frontend>>

begin_create(w, candidate) ==
  /\ next_id <= MaxId
  /\ LET result == validateAsset(candidate, clock) IN
     begin(w, "create", next_id, result, Stored(result.data), TRUE)

begin_update(w, id, candidate) ==
  /\ id \in DOMAIN assets
  /\ LET result == validateAsset(candidate, clock)
         row == Stored(result.data) IN
     begin(w, "update", id, result, row, FinancialFieldsChanged(assets[id], row))

begin_dispose(w, id, disposedDate, disposedValue) ==
  /\ id \in DOMAIN assets
  /\ LET result == validateDispose(disposedDate, disposedValue,
                                   assets[id].date_placed_in_service, clock)
         row == [assets[id] EXCEPT !.disposed_date = result.data.disposed_date,
                                   !.disposed_value = result.data.disposed_value]
     IN begin(w, "dispose", id, result, row, TRUE)

begin_delete(w, id) ==
  /\ id \in DOMAIN assets
  /\ begin(w, "delete", id, [success |-> TRUE, errors |-> NoErrors], assets[id], FALSE)

\* the asset row is written (for a delete: removed, its entries with it)
write_asset(w) ==
  /\ txn[w].pc = "write_asset"
  /\ LET t == txn[w] IN
     /\ assets' = IF t.op = "delete" THEN Without(assets, t.id)
                                     ELSE With(assets, t.id, t.row)
     /\ depreciation_schedule' =
          IF t.op = "delete" THEN on_delete_cascade(depreciation_schedule, t.id)
          ELSE depreciation_schedule
     /\ next_id' = IF t.op = "create" THEN next_id + 1 ELSE next_id
     /\ txn' = [txn EXCEPT ![w].pc = IF t.regenerate THEN "delete_schedule"
                                                     ELSE "commit"]
  /\ UNCHANGED <<clock, last, full_before, request, lock, seen, category_table, import_file, frontend>>

\* the old entries of the asset are deleted
delete_schedule(w) ==
  /\ txn[w].pc = "delete_schedule"
  /\ depreciation_schedule' = With(depreciation_schedule, txn[w].id, <<>>)
  /\ txn' = [txn EXCEPT ![w].pc = IF txn[w].entries = <<>> THEN "commit" ELSE "insert"]
  /\ UNCHANGED <<clock, assets, next_id, last, full_before, request, lock, seen,
                 category_table, import_file, frontend>>

\* the next generated entry is inserted
insert_entry(w) ==
  /\ txn[w].pc = "insert"
  /\ LET t == txn[w]
         n == Len(depreciation_schedule[t.id]) + 1 IN
     /\ depreciation_schedule' =
          With(depreciation_schedule, t.id,
               Append(depreciation_schedule[t.id], t.entries[n]))
     /\ txn' = [txn EXCEPT ![w].pc = IF n = Len(t.entries) THEN "commit" ELSE "insert"]
  /\ UNCHANGED <<clock, assets, next_id, last, full_before, request, lock, seen,
                 category_table, import_file, frontend>>

commit(w) ==
  /\ txn[w].pc = "commit"
  /\ last' = Done(txn[w].op, txn[w].id)
  /\ txn' = [txn EXCEPT ![w] = Idle]
  /\ lock' = "none"
  /\ UNCHANGED <<clock, assets, depreciation_schedule, next_id, full_before,
                 request, seen, category_table, import_file, frontend>>

rolled_back_partly(before, current) == current

\* what the store holds after the transaction of a failed write is rolled back
rolled_back(before, current) == before

\* the store fails under a write in flight
storage_failure(w) ==
  /\ txn[w].pc \in {"write_asset", "delete_schedule", "insert", "commit"}
  /\ LET back == rolled_back(txn[w].before, Store) IN
     /\ assets' = back.assets
     /\ depreciation_schedule' = back.schedule
     /\ next_id' = back.next_id
  /\ last' = Failed(txn[w].op, txn[w].id, txn[w].pc)
  /\ txn' = [txn EXCEPT ![w] = Idle]
  /\ lock' = "none"
  /\ UNCHANGED <<clock, full_before, request, seen, category_table, import_file, frontend>>

\* a read command locks the connection, reads the assets with their schedules
\* and unlocks
read_begin(r) ==
  /\ LockFree(lock)
  /\ lock' = r
  /\ UNCHANGED <<clock, assets, depreciation_schedule, next_id, last, full_before,
                 request, txn, seen, category_table, import_file, frontend>>

read_end(r) ==
  /\ lock = r
  /\ seen' = [reader |-> r, store |-> Store]
  /\ lock' = "none"
  /\ UNCHANGED <<clock, assets, depreciation_schedule, next_id, last, full_before,
                 request, txn, category_table, import_file, frontend>>

(***************************************************************************)
(* Categories: a weak reference from the asset, a blocked delete.          *)
(***************************************************************************)
CategoryNeverInUse(rows, id) == FALSE

\* an asset references the category
CategoryInUse(rows, id) ==
  \E a \in DOMAIN rows : rows[a].category_id = Some(id)

Refused(op, id, message) ==
  [op |-> op, id |-> id, success |-> FALSE, errors |-> [k \in {"error"} |-> message]]

\* handleSave of a new category: an empty name is not sent; the name is
\* stored trimmed and is unique in the table
create_category(name) ==
  /\ Len(Trim(name)) > 0
  /\ next_category_id <= MaxCategoryId
  /\ IF \E k \in DOMAIN categories : categories[k].name = Trim(name)
       THEN /\ last' = Refused("create_category", 0, "Category name already exists")
            /\ UNCHANGED category_table
       ELSE /\ categories' = With(categories, next_category_id, [name |-> Trim(name)])
            /\ next_category_id' = next_category_id + 1
            /\ last' = Done("create_category", next_category_id)
  /\ UNCHANGED <<clock, assets, depreciation_schedule, next_id, full_before, aside,
                 import_file, frontend>>

\* delete of a category: blocked while an asset references it
delete_category(id) ==
  /\ id \in DOMAIN categories
  /\ IF CategoryInUse(assets, id)
       THEN /\ last' = Refused("delete_category", id,
                               "Cannot delete category with assigned assets")
            /\ UNCHANGED category_table
       ELSE /\ categories' = Without(categories, id)
            /\ last' = Done("delete_category", id)
            /\ UNCHANGED next_category_id
  /\ UNCHANGED <<clock, assets, depreciation_schedule, next_id, full_before, aside,
                 import_file, frontend>>

\* the categories the asset form offers: none, or one of the table
CategoryChoices == {None} \cup {Some(k) : k \in DOMAIN categories}

(***************************************************************************)
(* Batch import: every row of the file goes through the validation engine. *)
(***************************************************************************)
NoImport == [imported |-> 0, errors |-> <<>>]

\* the store with one more asset, persisted with its schedule
inserted(store, row) ==
  [assets |-> With(store.assets, store.next_id, row),
   schedule |-> With(store.schedule, store.next_id,
                     generate_schedule(row, CurrentYear(clock))),
   next_id |-> store.next_id + 1]

stop_after_error(rows, i) == Len(rows) + 1

\* the row the import goes on with after a row it rejected
next_after_error(rows, i) == i + 1

RECURSIVE import_rows(_, _, _, _)
import_rows(rows, i, store, result) ==
  IF i > Len(rows) THEN [store |-> store, result |-> result]
  ELSE LET checked == validateAsset(rows[i], clock) IN
       IF checked.success
         THEN import_rows(rows, i + 1, inserted(store, Stored(checked.data)),
                          [result EXCEPT !.imported = @ + 1])
         ELSE import_rows(rows, next_after_error(rows, i), store,
                          [result EXCEPT !.errors =
                             Append(@, [row |-> i, errors |-> checked.errors])])

import_assets(rows) ==
  LET done == import_rows(rows, 1, Store, NoImport) IN
  /\ file_rows' = rows
  /\ import_result' = done.result
  /\ assets' = done.store.assets
  /\ depreciation_schedule' = done.store.schedule
  /\ next_id' = done.store.next_id
  /\ last' = Done("import", 0)
  /\ UNCHANGED <<clock, full_before, aside, category_table, frontend>>

(***************************************************************************)
(* Views: what the frontend derives from the assets and schedules it read. *)
(***************************************************************************)
NoView == [name |-> "none"]

\* new Date("YYYY-MM-DD").getFullYear(): the calendar year, in the caller's
\* local time, of midnight UTC of the day
getFullYear(d, c) == BaseYear + (((DateInstant(d) + c.tz) \div UnitsPerDay) \div DaysPerYear)

\* schedule.find(s => s.year === year): the index of the first such entry, or 0
find(schedule, year) ==
  LET found == {i \in DOMAIN schedule : schedule[i].year = year} IN
  IF found = {} THEN 0 ELSE CHOOSE i \in found : \A j \in found : i <= j

\* AssetDetail: the book value at disposal of a disposed asset
bookValueAtDisposal(assetData, schedule, c) ==
  LET scheduleAtDisposal == find(schedule, getFullYear(assetData.disposed_date, c)) IN
  IF scheduleAtDisposal # 0 THEN schedule[scheduleAtDisposal].beginning_book_value
  ELSE IF schedule # <<>> THEN schedule[Len(schedule)].ending_book_value
  ELSE assetData.salvage_value

gainLoss(assetData, schedule, c) ==
  (IF assetData.disposed_value.some THEN assetData.disposed_value.val ELSE 0)
    - bookValueAtDisposal(assetData, schedule, c)

\* the asset detail view of one asset read from the store
asset_detail(id) ==
  /\ id \in DOMAIN assets
  /\ view' = [name |-> "detail", asset |-> assets[id],
               schedule |-> depreciation_schedule[id],
               disposed |-> IsDisposed(assets[id]),
               hasGainLoss |-> assets[id].disposed_value.some,
               gainLoss |-> IF IsDisposed(assets[id])
                              THEN gainLoss(assets[id], depreciation_schedule[id], clock)
                              ELSE 0]
  /\ UNCHANGED <<clock, assets, depreciation_schedule, next_id, last, full_before,
                 aside, category_table, import_file, forms>>

\* the sum of f over the set S
RECURSIVE SumOver(_, _)
SumOver(f, S) ==
  IF S = {} THEN 0
  ELSE LET x == CHOOSE x \in S : TRUE IN f[x] + SumOver(f, S \ {x})

\* the expense a schedule holds for a year (0 when it has no entry for it)
ExpenseIn(schedule, year) ==
  LET i == find(schedule, year) IN
  IF i = 0 THEN 0 ELSE schedule[i].depreciation_expense

\* get_annual_summary: the entries of the schedule table folded by year
get_annual_summary ==
  LET table == depreciation_schedule
      years == UNION {{table[id][i].year : i \in DOMAIN table[id]} : id \in DOMAIN table}
  IN [y \in years |->
        [year |-> y,
         total_depreciation |->
           SumOver([id \in DOMAIN table |-> ExpenseIn(table[id], y)], DOMAIN table),
         asset_count |->
           Cardinality({id \in DOMAIN table : find(table[id], y) # 0})]]

\* the annual summary as the reports show it, read from the store
annual_summary ==
  /\ view' = [name |-> "summary", rows |-> get_annual_summary]
  /\ UNCHANGED <<clock, assets, depreciation_schedule, next_id, last, full_before,
                 aside, category_table, import_file, forms>>

\* the asset list: currentEntry?.ending_book_value ?? item.asset.cost
bookValue(asset, schedule, currentYear) ==
  LET currentEntry == find(schedule, currentYear) IN
  IF currentEntry # 0 THEN schedule[currentEntry].ending_book_value ELSE asset.cost

\* the asset list of the assets read from the store, in the current year
asset_list ==
  /\ view' = [name |-> "list", currentYear |-> CurrentYear(clock),
               rows |-> [id \in DOMAIN assets |->
                           [asset |-> assets[id], schedule |-> depreciation_schedule[id],
                            bookValue |-> bookValue(assets[id], depreciation_schedule[id],
                                                    CurrentYear(clock))]]]
  /\ UNCHANGED <<clock, assets, depreciation_schedule, next_id, last, full_before,
                 aside, category_table, import_file, forms>>

\* Math.max and Math.min of two numbers
MathMax(a, b) == IF a >= b THEN a ELSE b
MathMin(a, b) == IF a <= b THEN a ELSE b

TimeRange == {"all", "next10", "next5", "1y"}

\* getYearRange: the years a chart keeps for a time range
getYearRange(timeRange, currentYear) ==
  CASE timeRange = "1y" -> [startYear |-> currentYear, endYear |-> currentYear]
    [] timeRange = "next5" -> [startYear |-> currentYear, endYear |-> currentYear + 4]
    [] timeRange = "next10" -> [startYear |-> currentYear, endYear |-> currentYear + 9]
    [] OTHER -> [startYear |-> 0, endYear |-> 9999]

\* yearRangeInfo: the year range the dashboard and the analysis view display,
\* clamped to the years of the annual summary; null for an empty summary
yearRangeInfo(annualSummary, timeRange, currentYear) ==
  IF DOMAIN annualSummary = {} THEN [null |-> TRUE]
  ELSE
    LET allYears == DOMAIN annualSummary
        minYear == CHOOSE y \in allYears : \A z \in allYears : y <= z
        maxYear == CHOOSE y \in allYears : \A z \in allYears : z <= y
        chosen == CASE timeRange = "1y" -> [startYear |-> currentYear, endYear |-> currentYear]
                    [] timeRange = "next5" ->
                         [startYear |-> currentYear, endYear |-> currentYear + 4]
                    [] timeRange = "next10" ->
                         [startYear |-> currentYear, endYear |-> currentYear + 9]
                    [] OTHER -> [startYear |-> minYear, endYear |-> maxYear]
        startYear == MathMax(chosen.startYear, minYear)
        endYear == MathMin(chosen.endYear, maxYear)
    IN [null |-> FALSE, startYear |-> startYear, endYear |-> endYear,
        totalYears |-> Cardinality(allYears),
        filteredYears |-> Cardinality({y \in allYears : y >= startYear /\ y <= endYear})]

\* the dashboard or the analysis view over the annual summary read from the
\* store, for the time range the user selected
year_range_view(component, timeRange) ==
  /\ view' = [name |-> component, timeRange |-> timeRange,
               currentYear |-> CurrentYear(clock), annualSummary |-> get_annual_summary,
               charts |-> getYearRange(timeRange, CurrentYear(clock)),
               yearRangeInfo |-> yearRangeInfo(get_annual_summary, timeRange,
                                               CurrentYear(clock))]
  /\ UNCHANGED <<clock, assets, depreciation_schedule, next_id, last, full_before,
                 aside, category_table, import_file, forms>>

\* the view is left
close_view ==
  /\ view' = NoView
  /\ UNCHANGED <<clock, assets, depreciation_schedule, next_id, last, full_before,
                 aside, category_table, import_file, forms>>

(***************************************************************************)
(* The asset form and the dispose dialog, with the parent that holds the   *)
(* asset under edit and sends the commands.                                *)
(***************************************************************************)
DefaultLife == 5

NoAsset == [open |-> FALSE]
NoDisposing == [open |-> FALSE]
NoSent == [command |-> "none"]

\* new Date().toISOString().split("T")[0]: the calendar date in UTC
toISODate(c) == DayDate(c.now \div UnitsPerDay)

newAsset(c) == Candidate(<<>>, toISODate(c), 0, 0, Years(DefaultLife), UndefinedDate, None)

\* the asset under edit: the fields of the form, with the id of the persisted
\* asset (0 for a new one)
Editing(id, fields) == [f \in DOMAIN fields \cup {"id"} |->
                          IF f = "id" THEN id ELSE fields[f]]

AssetFields(e) == [f \in DOMAIN e \ {"id"} |-> e[f]]

\* a persisted row as the form holds it
Loaded(row) == [row EXCEPT !.useful_life_years = Years(@)]

\* the state updateField sets: the asset of the render the handler belongs
\* to, with one field replaced
updateField(rendered, field, value) == [rendered EXCEPT ![field] = value]

\* the second of two updates issued from one event: it is computed from the
\* asset of the same render as the first, whose own update is still pending
updateFieldAgain(rendered, pending, field, value) == updateField(rendered, field, value)

\* delete next[field] on the errors of the form
WithoutError(errs, fields) == [k \in DOMAIN errs \ fields |-> errs[k]]

open_form(id, fields) ==
  /\ editingAsset = NoAsset
  /\ ~disposing.open
  /\ editingAsset' = Editing(id, fields)
  /\ errors' = NoErrors
  /\ sent' = NoSent
  /\ UNCHANGED <<clock, assets, depreciation_schedule, next_id, last, full_before,
                 aside, category_table, import_file, view, numberInput, disposing>>

\* handleChange of one field
handleChange(field, value) ==
  /\ editingAsset # NoAsset
  /\ editingAsset' = updateField(editingAsset, field, value)
  /\ errors' = WithoutError(errors, {field})
  /\ sent' = NoSent
  /\ UNCHANGED <<clock, assets, depreciation_schedule, next_id, last, full_before,
                 aside, category_table, import_file, view, numberInput, disposing>>

\* Status onValueChange("active"): two field updates from one event
status_active ==
  /\ editingAsset # NoAsset
  /\ LET first == updateField(editingAsset, "disposed_date", UndefinedDate)
         second == updateFieldAgain(editingAsset, first, "disposed_value", None)
     IN editingAsset' = second
  /\ errors' = WithoutError(errors, {"disposed_date", "disposed_value"})
  /\ sent' = NoSent
  /\ UNCHANGED <<clock, assets, depreciation_schedule, next_id, last, full_before,
                 aside, category_table, import_file, view, numberInput, disposing>>

\* Status onValueChange("disposed")
status_disposed ==
  /\ editingAsset # NoAsset
  /\ editingAsset' = updateField(editingAsset, "disposed_date", toISODate(clock))
  /\ errors' = WithoutError(errors, {"disposed_date"})
  /\ sent' = NoSent
  /\ UNCHANGED <<clock, assets, depreciation_schedule, next_id, last, full_before,
                 aside, category_table, import_file, view, numberInput, disposing>>

\* handleSaveAsset of the parent: the command goes to the backend, and the
\* form is closed when the backend accepted it
handleSaveAsset(asset) ==
  /\ sent' = [command |-> IF asset.id # 0 THEN "update_asset" ELSE "create_asset",
               asset |-> AssetFields(asset)]
  /\ IF asset.id # 0 THEN update_asset(asset.id, AssetFields(asset))
                     ELSE create_asset(AssetFields(asset))
  /\ editingAsset' = IF last'.success THEN NoAsset ELSE editingAsset
  /\ UNCHANGED <<aside, category_table, import_file, view, numberInput, disposing>>

\* handleSubmit of the form that validates
handleSubmit ==
  /\ editingAsset # NoAsset
  /\ LET result == validateAsset(AssetFields(editingAsset), clock) IN
     IF ~result.success
       THEN /\ errors' = result.errors
            /\ sent' = NoSent
            /\ UNCHANGED <<clock, assets, depreciation_schedule, next_id, last,
                           full_before, aside, category_table, import_file, view, numberInput,
                           editingAsset, disposing>>
       ELSE /\ errors' = NoErrors
            /\ handleSaveAsset(editingAsset)

\* handleSubmit of the form that does not validate; the browser holds the
\* submit back while the required name is empty
handleSubmitDirect ==
  /\ editingAsset # NoAsset
  /\ editingAsset.name # <<>>
  /\ handleSaveAsset(editingAsset)
  /\ UNCHANGED errors

open_dispose(id) ==
  /\ id \in DOMAIN assets
  /\ editingAsset = NoAsset
  /\ ~disposing.open
  /\ disposing' = [open |-> TRUE, id |-> id, disposedDate |-> toISODate(clock),
                    disposedValue |-> None, errors |-> NoErrors]
  /\ sent' = NoSent
  /\ UNCHANGED <<clock, assets, depreciation_schedule, next_id, last, full_before,
                 aside, category_table, import_file, view, numberInput, editingAsset, errors>>

handleDateChange(value) ==
  /\ disposing.open
  /\ disposing' = [disposing EXCEPT !.disposedDate = value,
                                     !.errors = WithoutError(@, {"disposed_date"})]
  /\ sent' = NoSent
  /\ UNCHANGED <<clock, assets, depreciation_schedule, next_id, last, full_before,
                 aside, category_table, import_file, view, numberInput, editingAsset, errors>>

\* handleDisposeAsset of the parent
handleDisposeAsset(id, disposedDate, disposedValue) ==
  /\ sent' = [command |-> "dispose_asset", id |-> id, disposed_date |-> disposedDate,
               disposed_value |-> disposedValue]
  /\ dispose_asset(id, disposedDate, disposedValue)
  /\ UNCHANGED <<aside, category_table, import_file, view, numberInput, editingAsset, errors>>

\* handleConfirm of the dialog that validates
handleConfirm ==
  /\ disposing.open
  /\ LET result == validateDispose(disposing.disposedDate, disposing.disposedValue,
                                   assets[disposing.id].date_placed_in_service, clock)
     IN IF ~result.success
          THEN /\ disposing' = [disposing EXCEPT !.errors = result.errors]
               /\ sent' = NoSent
               /\ UNCHANGED <<clock, assets, depreciation_schedule, next_id, last,
                              full_before, aside, category_table, import_file, view, numberInput,
                              editingAsset, errors>>
          ELSE /\ disposing' = NoDisposing
               /\ handleDisposeAsset(disposing.id, disposing.disposedDate,
                                     disposing.disposedValue)

\* handleConfirm of the dialog that does not validate
handleConfirmDirect ==
  /\ disposing.open
  /\ disposing' = NoDisposing
  /\ handleDisposeAsset(disposing.id, disposing.disposedDate, disposing.disposedValue)

(***************************************************************************)
(* NumberInput (components/ui/number-input.tsx): a text input with a minus *)
(* and a plus button, controlled by the parent that renders it.  A text is *)
(* a sequence of characters; the texts typed hold no decimal point, and    *)
(* money counts in steps of 0.01.                                          *)
(***************************************************************************)
NoInput == [mounted |-> FALSE]
NotEmitted == [kind |-> "none", val |-> 0]
Emitted(v) == [kind |-> "number", val |-> v]
EmittedUndefined == [kind |-> "undefined", val |-> 0]
NaN == [nan |-> TRUE, val |-> 0]

DigitChars == <<"0", "1", "2", "3", "4", "5", "6", "7", "8", "9">>
IsDigit(ch) == \E i \in DOMAIN DigitChars : DigitChars[i] = ch
DigitValue(ch) == (CHOOSE i \in DOMAIN DigitChars : DigitChars[i] = ch) - 1

\* the value of the longest prefix of digits of text, read after acc
RECURSIVE ParseDigits(_, _)
ParseDigits(text, acc) ==
  IF text = <<>> \/ ~IsDigit(Head(text)) THEN acc
  ELSE ParseDigits(Tail(text), 10 * acc + DigitValue(Head(text)))

\* parseFloat: an optional sign and the digits that follow it, whatever
\* comes after them; NaN when no digit follows
parseFloat(text) ==
  LET negative == text # <<>> /\ Head(text) = "-"
      digits == IF negative THEN Tail(text) ELSE text
  IN IF digits = <<>> \/ ~IsDigit(Head(digits)) THEN NaN
     ELSE [nan |-> FALSE,
           val |-> IF negative THEN 0 - ParseDigits(digits, 0) ELSE ParseDigits(digits, 0)]

\* numericValue: the value prop as a number ("" when the parent holds none)
numericValue(input) == IF input.value.some THEN input.value.val ELSE 0

canDecrement(input) == ~input.min.some \/ numericValue(input) > input.min.val
canIncrement(input) == ~input.max.some \/ numericValue(input) < input.max.val

\* what increment passes to onChange; newValue is a whole number of steps,
\* which the rounding to six decimals leaves as it is
increment(input) ==
  LET newValue == numericValue(input) + input.step IN
  Emitted(IF input.max.some /\ newValue > input.max.val THEN input.max.val ELSE newValue)

\* what decrement passes to onChange
decrement(input) ==
  LET newValue == numericValue(input) - input.step IN
  Emitted(IF input.min.some /\ newValue < input.min.val THEN input.min.val ELSE newValue)

\* what handleChange passes to onChange for the text of the input, if anything
handleChangeInput(input, inputValue) ==
  LET parsed == parseFloat(inputValue)
      atLeastMin == IF input.min.some /\ parsed.val < input.min.val
                      THEN input.min.val ELSE parsed.val
      newValue == IF input.max.some /\ atLeastMin > input.max.val
                    THEN input.max.val ELSE atLeastMin
  IN IF inputValue = <<>> /\ input.allowEmpty THEN EmittedUndefined
     ELSE IF ~parsed.nan THEN Emitted(newValue)
     ELSE IF inputValue = <<>> \/ inputValue = <<"-">> THEN Emitted(0)
     ELSE NotEmitted

\* the parent's onChange: onChange(field, value ?? fallback), or the value
\* as it is where the field may be empty; the input is rendered again with it
onChange(input, emitted) ==
  IF emitted.kind = "none" THEN input
  ELSE [input EXCEPT !.emitted = emitted,
                     !.value = IF emitted.kind = "number" THEN Some(emitted.val)
                               ELSE input.fallback]

\* the number inputs the forms render: useful life, cost and salvage value,
\* the disposal value and the default life of a category, and an input with
\* both bounds
UsefulLifeInput ==
  [mounted |-> TRUE, field |-> "useful_life_years", step |-> 1, min |-> Some(1),
   max |-> None, allowEmpty |-> FALSE, fallback |-> Some(1)]
MoneyInput ==
  [mounted |-> TRUE, field |-> "salvage_value", step |-> 1, min |-> Some(0),
   max |-> None, allowEmpty |-> FALSE, fallback |-> Some(0)]
DisposedValueInput ==
  [mounted |-> TRUE, field |-> "disposed_value", step |-> 1, min |-> Some(0),
   max |-> None, allowEmpty |-> TRUE, fallback |-> None]
DefaultLifeInput ==
  [mounted |-> TRUE, field |-> "default_useful_life", step |-> 1, min |-> Some(1),
   max |-> None, allowEmpty |-> TRUE, fallback |-> None]
BoundedInput ==
  [mounted |-> TRUE, field |-> "bounded", step |-> 1, min |-> Some(1),
   max |-> Some(MaxInput), allowEmpty |-> FALSE, fallback |-> Some(1)]

\* the parent renders the input with a value of the field
render_input(props, value) ==
  /\ ~numberInput.mounted
  /\ numberInput' = [f \in DOMAIN props \cup {"value", "emitted"} |->
                       IF f = "value" THEN value
                       ELSE IF f = "emitted" THEN NotEmitted ELSE props[f]]
  /\ UNCHANGED <<clock, assets, depreciation_schedule, next_id, last, full_before,
                 aside, category_table, import_file, view, editingAsset, errors,
                 disposing, sent>>

\* the user changes the text of the input
type_text(inputValue) ==
  /\ numberInput.mounted
  /\ numberInput' = onChange(numberInput, handleChangeInput(numberInput, inputValue))
  /\ UNCHANGED <<clock, assets, depreciation_schedule, next_id, last, full_before,
                 aside, category_table, import_file, view, editingAsset, errors,
                 disposing, sent>>

\* handleKeyDown with ArrowUp or ArrowDown
handleKeyDown(key) ==
  /\ numberInput.mounted
  /\ numberInput' = onChange(numberInput, IF key = "ArrowUp" THEN increment(numberInput)
                                           ELSE decrement(numberInput))
  /\ UNCHANGED <<clock, assets, depreciation_schedule, next_id, last, full_before,
                 aside, category_table, import_file, view, editingAsset, errors,
                 disposing, sent>>

\* a click on the plus button, disabled unless canIncrement
click_plus ==
  /\ numberInput.mounted
  /\ canIncrement(numberInput)
  /\ numberInput' = onChange(numberInput, increment(numberInput))
  /\ UNCHANGED <<clock, assets, depreciation_schedule, next_id, last, full_before,
                 aside, category_table, import_file, view, editingAsset, errors,
                 disposing, sent>>

\* a click on the minus button, disabled unless canDecrement
click_minus ==
  /\ numberInput.mounted
  /\ canDecrement(numberInput)
  /\ numberInput' = onChange(numberInput, decrement(numberInput))
  /\ UNCHANGED <<clock, assets, depreciation_schedule, next_id, last, full_before,
                 aside, category_table, import_file, view, editingAsset, errors,
                 disposing, sent>>

(***************************************************************************)
(* Specifications.                                                         *)
(***************************************************************************)
Init ==
  /\ clock \in Clocks
  /\ assets = <<>>
  /\ depreciation_schedule = <<>>
  /\ next_id = 1
  /\ last = Done("init", 0)
  /\ full_before = NoSnapshot
  /\ request = NoRequest
  /\ lock = "none"
  /\ txn = [w \in Writers |-> Idle]
  /\ seen = Unread
  /\ categories = <<>>
  /\ next_category_id = 1
  /\ file_rows = <<>>
  /\ import_result = NoImport
  /\ view = NoView
  /\ editingAsset = NoAsset
  /\ errors = NoErrors
  /\ disposing = NoDisposing
  /\ sent = NoSent
  /\ numberInput = NoInput

Create ==
  /\ \E c \in LifeCandidates : create_asset(c)
  /\ UNCHANGED <<aside, category_table, import_file, frontend>>
Update ==
  /\ \E id \in DOMAIN assets : \E c \in LifeCandidates : update_asset(id, c)
  /\ UNCHANGED <<aside, category_table, import_file, frontend>>
Dispose ==
  /\ \E id \in DOMAIN assets : \E d \in LifeDisposalDates \cup {EarlyDate, Tomorrow} :
       dispose_asset(id, d, Some(1))
  /\ UNCHANGED <<aside, category_table, import_file, frontend>>
Reinstate ==
  /\ \E id \in DOMAIN assets : reinstate_asset(id)
  /\ UNCHANGED <<aside, category_table, import_file, frontend>>
Delete ==
  /\ \E id \in DOMAIN assets : delete_asset(id)
  /\ UNCHANGED <<aside, category_table, import_file, frontend>>

Next == Create \/ Update \/ Dispose \/ Reinstate \/ Delete

Spec == Init /\ [][Next]_vars

\* the generator applied to every candidate the validation engine accepts
Generate ==
  /\ last.op = "init"
  /\ \E c \in GenCandidates : create_asset(c)
  /\ UNCHANGED <<aside, category_table, import_file, frontend>>

NextGen == Generate

SpecGen == Init /\ [][NextGen]_vars

\* the commands over the shared connection, step by step
StoreCandidates ==
  {Candidate(<<"a">>, Date(BaseYear, 1), MaxCost, 0, Years(l), UndefinedDate, None) :
     l \in {MaxLife - 1, MaxLife}}
    \cup {Candidate(<<"a">>, Date(BaseYear, 1), 0, 0, Years(MaxLife), UndefinedDate,
                     None)}

Begin ==
  \E w \in Writers :
    \/ \E c \in StoreCandidates : begin_create(w, c)
    \/ \E id \in DOMAIN assets : \E c \in StoreCandidates : begin_update(w, id, c)
    \/ \E id \in DOMAIN assets : begin_dispose(w, id, Date(BaseYear + 1, 1), Some(1))
    \/ \E id \in DOMAIN assets : begin_delete(w, id)
WriteAsset == \E w \in Writers : write_asset(w)
DeleteSchedule == \E w \in Writers : delete_schedule(w)
InsertEntry == \E w \in Writers : insert_entry(w)
Commit == \E w \in Writers : commit(w)
StorageFailure == \E w \in Writers : storage_failure(w)
ReadBegin == \E r \in Readers : read_begin(r)
ReadEnd == \E r \in Readers : read_end(r)

NextStore ==
  \/ Begin \/ WriteAsset \/ DeleteSchedule \/ InsertEntry \/ Commit \/ StorageFailure
  \/ ReadBegin \/ ReadEnd

SpecStore == Init /\ [][NextStore]_vars

\* category and asset operations, interleaved
CatCandidates ==
  {Candidate(<<"a">>, Date(BaseYear, 1), c, 0, Years(MaxLife), UndefinedDate, None) :
     c \in {0, MaxCost}}

InCategory(c, k) == [c EXCEPT !.category_id = k]

CreateCategory == \E n \in {<<"a">>, <<"b", " ">>, <<" ">>} : create_category(n)
DeleteCategory == \E id \in DOMAIN categories : delete_category(id)
CreateIn ==
  /\ \E c \in CatCandidates : \E k \in CategoryChoices : create_asset(InCategory(c, k))
  /\ UNCHANGED <<aside, category_table, import_file, frontend>>
UpdateIn ==
  /\ \E id \in DOMAIN assets : \E c \in CatCandidates : \E k \in CategoryChoices :
       update_asset(id, InCategory(c, k))
  /\ UNCHANGED <<aside, category_table, import_file, frontend>>

NextCat == CreateCategory \/ DeleteCategory \/ CreateIn \/ UpdateIn \/ Delete

SpecCat == Init /\ [][NextCat]_vars

\* the import of one file of up to MaxRows rows
ImportRows ==
  {Candidate(<<"a">>, Date(BaseYear, 1), c, v, Years(l), UndefinedDate, None) :
     c \in {0, MaxCost}, v \in {0}, l \in {MaxLife}}
    \cup {Candidate(<<"a">>, Date(BaseYear, 1), MaxCost - 1, v, Years(MaxLife - 1),
                     UndefinedDate, None) : v \in {0, MaxCost}}
    \cup {Candidate(<<" ">>, Tomorrow, MaxCost, 1, Years(1) + 1, UndefinedDate, None)}

ImportFiles == UNION {[1 .. n -> ImportRows] : n \in 1 .. MaxRows}

Import == last.op = "init" /\ \E rows \in ImportFiles : import_assets(rows)

NextImport == Import

SpecImport == Init /\ [][NextImport]_vars

\* the validation engine alone, under every clock of one day and every
\* offset of local time from UTC of less than a day
LocalToday(c) == (c.now + c.tz) \div UnitsPerDay

ValClocks ==
  {[now |-> DateInstant(Today) + t, tz |-> z] :
     t \in 0 .. UnitsPerDay - 1, z \in -(UnitsPerDay - 1) .. UnitsPerDay - 1}

ValDates == {DayDate(Today.day + k) : k \in -2 .. 2} \cup {MalformedDate}

ValCandidates ==
  {Candidate(n, s, c, v, l, d, dv) :
     n \in {<<"a">>, <<" ">>},
     s \in ValDates \cup {EmptyDate},
     c \in {0, 1, MaxCost},
     v \in {-1, 0, 1, MaxCost, MaxCost + 1},
     l \in {Years(-1), 0, 1, Years(1), Years(1) + 1, Years(MaxLife)},
     d \in ValDates \cup {UndefinedDate},
     dv \in {None, Some(-1), Some(0)}}

ValDisposals ==
  {Candidate(<<"a">>, s, 0, 0, 0, d, dv) :
     s \in ValDates \cup {EmptyDate}, d \in ValDates \cup {EmptyDate},
     dv \in {None, Some(-1), Some(0), Some(MaxCost + 1)}}

InitVal ==
  /\ clock \in ValClocks
  /\ assets = <<>>
  /\ depreciation_schedule = <<>>
  /\ next_id = 1
  /\ last = Done("init", 0)
  /\ full_before = NoSnapshot
  /\ request = NoRequest
  /\ lock = "none"
  /\ txn = [w \in Writers |-> Idle]
  /\ seen = Unread
  /\ categories = <<>>
  /\ next_category_id = 1
  /\ file_rows = <<>>
  /\ import_result = NoImport
  /\ view = NoView
  /\ editingAsset = NoAsset
  /\ errors = NoErrors
  /\ disposing = NoDisposing
  /\ sent = NoSent
  /\ numberInput = NoInput

ValidateAsset ==
  /\ last.op = "init"
  /\ \E c \in ValCandidates :
       /\ request' = c
       /\ last' = Outcome("validate_asset", 0, validateAsset(c, clock))
  /\ UNCHANGED <<clock, assets, depreciation_schedule, next_id, full_before, lock,
                 txn, seen, category_table, import_file, frontend>>

ValidateDisposal ==
  /\ last.op = "init"
  /\ \E c \in ValDisposals :
       /\ request' = c
       /\ last' = Outcome("validate_disposal", 0,
                          validateDispose(c.disposed_date, c.disposed_value,
                                          c.date_placed_in_service, clock))
  /\ UNCHANGED <<clock, assets, depreciation_schedule, next_id, full_before, lock,
                 txn, seen, category_table, import_file, frontend>>

NextVal == ValidateAsset \/ ValidateDisposal

SpecVal == InitVal /\ [][NextVal]_vars

\* the views over the store the lifecycle leaves, for a caller behind UTC
\* and a caller at UTC, late enough in the day that both read the same date
ViewClocks == {[now |-> DateInstant(Today) + UnitsPerDay - 1, tz |-> z] : z \in {-1, 0}}

NewYearsDay == Date(BaseYear + 1, 0)

ViewCandidates ==
  {Candidate(<<"a">>, Date(BaseYear, 1), MaxCost, v, Years(MaxLife), d.date, d.value) :
     v \in {0, 1},
     d \in {[date |-> UndefinedDate, value |-> None],
            [date |-> NewYearsDay, value |-> Some(MaxCost)],
            [date |-> Today, value |-> Some(1)]}}

InitView ==
  /\ clock \in ViewClocks
  /\ assets = <<>>
  /\ depreciation_schedule = <<>>
  /\ next_id = 1
  /\ last = Done("init", 0)
  /\ full_before = NoSnapshot
  /\ request = NoRequest
  /\ lock = "none"
  /\ txn = [w \in Writers |-> Idle]
  /\ seen = Unread
  /\ categories = <<>>
  /\ next_category_id = 1
  /\ file_rows = <<>>
  /\ import_result = NoImport
  /\ view = NoView
  /\ editingAsset = NoAsset
  /\ errors = NoErrors
  /\ disposing = NoDisposing
  /\ sent = NoSent
  /\ numberInput = NoInput

CreateViewed ==
  /\ view = NoView
  /\ \E c \in ViewCandidates : create_asset(c)
  /\ UNCHANGED <<aside, category_table, import_file, frontend>>
UpdateViewed ==
  /\ view = NoView
  /\ \E id \in DOMAIN assets : \E c \in ViewCandidates : update_asset(id, c)
  /\ UNCHANGED <<aside, category_table, import_file, frontend>>
DisposeViewed ==
  /\ view = NoView
  /\ \E id \in DOMAIN assets : \E d \in {NewYearsDay, Date(BaseYear + 1, 1)} :
       dispose_asset(id, d, Some(1))
  /\ UNCHANGED <<aside, category_table, import_file, frontend>>
DeleteViewed == view = NoView /\ Delete
AssetDetail == view = NoView /\ \E id \in DOMAIN assets : asset_detail(id)
AnnualSummary == view = NoView /\ annual_summary
AssetList == view = NoView /\ asset_list
CloseView == view # NoView /\ close_view

NextView ==
  \/ CreateViewed \/ UpdateViewed \/ DisposeViewed \/ DeleteViewed
  \/ AssetDetail \/ AnnualSummary \/ AssetList \/ CloseView

SpecView == InitView /\ [][NextView]_vars

\* the forms over the store: a user who opens the form or the dialog,
\* changes fields and submits
FormCosts == {0, MaxCost}
FormSalvages == {0, MaxCost + 1}

OpenForm ==
  \/ open_form(0, newAsset(clock))
  \/ \E id \in DOMAIN assets : open_form(id, Loaded(assets[id]))
ChangeField ==
  \/ handleChange("name", <<"a">>)
  \/ \E v \in FormCosts : handleChange("cost", v)
  \/ \E v \in FormSalvages : handleChange("salvage_value", v)
  \/ handleChange("disposed_value", Some(1))
StatusActive == status_active
StatusDisposed == status_disposed
Submit == handleSubmit
SubmitDirect == handleSubmitDirect
OpenDispose == \E id \in DOMAIN assets : open_dispose(id)
ChangeDate == \E d \in {EarlyDate, Today, Tomorrow} : handleDateChange(d)
Confirm == handleConfirm
ConfirmDirect == handleConfirmDirect

NextForm ==
  \/ OpenForm \/ ChangeField \/ StatusActive \/ StatusDisposed \/ Submit \/ SubmitDirect
  \/ OpenDispose \/ ChangeDate \/ Confirm \/ ConfirmDirect

SpecForm == Init /\ [][NextForm]_vars

\* the validation engine on the string fields: texts whose length, as given
\* and trimmed, lies on either side of the ceiling of the field
Text(lead, n, trail) ==
  [i \in 1 .. lead |-> " "] \o [i \in 1 .. n |-> "a"] \o [i \in 1 .. trail |-> " "]

TextsAround(max) ==
  {Text(0, 1, 0), Text(0, max, 0), Text(0, max + 1, 0), Text(1, max, 1),
   Text(0, max - 1, 2), Text(0, 0, 2)}

TextCandidates ==
  {[Candidate(n, Date(BaseYear, 1), MaxCost, 0, Years(MaxLife), UndefinedDate, None)
      EXCEPT !.description = d, !.notes = t, !.property_class = p] :
     n \in TextsAround(NameMax),
     d \in {None} \cup {Some(x) : x \in TextsAround(DescriptionMax)},
     t \in {None} \cup {Some(x) : x \in {Text(0, NotesMax, 0), Text(0, NotesMax - 1, 2)}},
     p \in {None, Some("5"), Some("4")}}

CategoryCandidates ==
  {[name |-> n, default_useful_life |-> l, default_property_class |-> p] :
     n \in TextsAround(CategoryNameMax),
     l \in {None, Some(Years(1)), Some(0), Some(Years(1) + 1)},
     p \in {None, Some("5"), Some("4")}}

ValidateText ==
  /\ last.op = "init"
  /\ \E c \in TextCandidates :
       /\ request' = c
       /\ last' = Outcome("validate_asset", 0, validateAsset(c, clock))
  /\ UNCHANGED <<clock, assets, depreciation_schedule, next_id, full_before, lock,
                 txn, seen, category_table, import_file, frontend>>

ValidateCategory ==
  /\ last.op = "init"
  /\ \E c \in CategoryCandidates :
       /\ request' = c
       /\ last' = Outcome("validate_category", 0, validateCategory(c))
  /\ UNCHANGED <<clock, assets, depreciation_schedule, next_id, full_before, lock,
                 txn, seen, category_table, import_file, frontend>>

NextText == ValidateText \/ ValidateCategory

SpecText == Init /\ [][NextText]_vars

\* the dashboard and the analysis view in each year from the first year of
\* the model to the year after its last, over the summary of one asset
RangeClocks == {[now |-> DateInstant(Date(BaseYear + k, 0)), tz |-> 0] : k \in 0 .. MaxYears}

RangeCandidates ==
  {Candidate(<<"a">>, Date(BaseYear + k, 0), MaxCost, 0, Years(n), UndefinedDate, None) :
     k \in {0, 1}, n \in 1 .. MaxLife}

InitRange ==
  /\ clock \in RangeClocks
  /\ assets = <<>>
  /\ depreciation_schedule = <<>>
  /\ next_id = 1
  /\ last = Done("init", 0)
  /\ full_before = NoSnapshot
  /\ request = NoRequest
  /\ lock = "none"
  /\ txn = [w \in Writers |-> Idle]
  /\ seen = Unread
  /\ categories = <<>>
  /\ next_category_id = 1
  /\ file_rows = <<>>
  /\ import_result = NoImport
  /\ view = NoView
  /\ editingAsset = NoAsset
  /\ errors = NoErrors
  /\ disposing = NoDisposing
  /\ sent = NoSent
  /\ numberInput = NoInput

CreateRanged ==
  /\ view = NoView
  /\ \E c \in RangeCandidates : create_asset(c)
  /\ UNCHANGED <<aside, category_table, import_file, frontend>>
Dashboard == view = NoView /\ \E r \in TimeRange : year_range_view("dashboard", r)
Analysis == view = NoView /\ \E r \in TimeRange : year_range_view("analysis", r)

NextRange == CreateRanged \/ Dashboard \/ Analysis \/ CloseView

SpecRange == InitRange /\ [][NextRange]_vars

\* a number input under a user who types, presses the arrow keys and clicks
\* the buttons; the values stay below a ceiling so that the run ends
ClearedTexts == {<<>>, <<"-">>}
InputTexts ==
  ClearedTexts \cup {<<"x">>, <<"0">>, <<"2">>, <<"-", "1">>, <<"1", "x">>, <<"1", "0">>}
InputCeiling == 10 * MaxInput

RenderInput ==
  \E props \in {UsefulLifeInput, MoneyInput, DisposedValueInput, DefaultLifeInput,
                 BoundedInput} :
    \E value \in {props.fallback, Some(2)} : render_input(props, value)
TypeText == \E t \in InputTexts : type_text(t)
ArrowUp == handleKeyDown("ArrowUp") /\ numericValue(numberInput) < InputCeiling
ArrowDown == handleKeyDown("ArrowDown")
ClickPlus == click_plus /\ numericValue(numberInput) < InputCeiling
ClickMinus == click_minus

NextInput == RenderInput \/ TypeText \/ ArrowUp \/ ArrowDown \/ ClickPlus \/ ClickMinus

SpecInput == Init /\ [][NextInput]_vars

(***************************************************************************)
(* Properties.                                                             *)
(***************************************************************************)
ScheduleOf(id) == depreciation_schedule[id]

\* C1: the persisted schedule of every existing asset is the schedule
\* generate_schedule produces from the asset's persisted cost, salvage_value,
\* useful_life_years, date_placed_in_service and disposed_date
C1_PersistedScheduleIsCurrent ==
  \A id \in DOMAIN assets :
    ScheduleOf(id) = generate_schedule(assets[id], CurrentYear(clock))

\* C2: the last entry of the schedule generated for a valid asset that is not
\* disposed has ending_book_value equal to salvage_value
C2_FinalEndingIsSalvage ==
  \A id \in DOMAIN assets :
    ~IsDisposed(assets[id]) =>
      /\ ScheduleOf(id) # <<>>
      /\ ScheduleOf(id)[Len(ScheduleOf(id))].ending_book_value
           = assets[id].salvage_value

C2_Witness ==
  \E id \in DOMAIN assets :
    /\ last.op = "create" /\ last.success
    /\ ~IsDisposed(assets[id])
    /\ (assets[id].cost - assets[id].salvage_value) % assets[id].useful_life_years # 0
    /\ ScheduleOf(id)[Len(ScheduleOf(id))].ending_book_value
         = assets[id].salvage_value

\* C3: the depreciation_expense of all entries of the schedule generated for
\* a valid asset that is not disposed sums to cost - salvage_value
C3_ExpensesSumToBase ==
  \A id \in DOMAIN assets :
    ~IsDisposed(assets[id]) =>
      SumSeq([i \in DOMAIN ScheduleOf(id) |-> ScheduleOf(id)[i].depreciation_expense],
             Len(ScheduleOf(id)))
        = assets[id].cost - assets[id].salvage_value

C3_Witness ==
  \E id \in DOMAIN assets :
    /\ last.op = "create" /\ last.success
    /\ ~IsDisposed(assets[id])
    /\ assets[id].useful_life_years > 1
    /\ (assets[id].cost - assets[id].salvage_value) % assets[id].useful_life_years # 0
    /\ ScheduleOf(id)[1].depreciation_expense
         # ScheduleOf(id)[Len(ScheduleOf(id))].depreciation_expense

\* C4: a generated schedule, full or truncated by disposal, starts at cost,
\* every entry ends at its beginning minus its expense, and every entry begins
\* where the entry before it ended
C4_BookValuesChain ==
  \A id \in DOMAIN assets :
    LET s == ScheduleOf(id) IN
    /\ s # <<>>
    /\ s[1].beginning_book_value = assets[id].cost
    /\ \A i \in DOMAIN s :
         s[i].ending_book_value = s[i].beginning_book_value - s[i].depreciation_expense
    /\ \A i \in 1 .. Len(s) - 1 :
         s[i + 1].beginning_book_value = s[i].ending_book_value

C4_Witness ==
  \E id \in DOMAIN assets :
    /\ last.op = "create" /\ last.success
    /\ IsDisposed(assets[id])
    /\ Len(ScheduleOf(id)) > 1
    /\ Len(ScheduleOf(id)) < assets[id].useful_life_years
    /\ ScheduleOf(id)[2].beginning_book_value = ScheduleOf(id)[1].ending_book_value
    /\ ScheduleOf(id)[1].depreciation_expense > 0

\* C5: accumulated_depreciation never decreases from one year to the next and
\* equals cost minus the entry's ending_book_value, and ending_book_value
\* never drops below salvage_value
C5_AccumulatedMonotone ==
  \A id \in DOMAIN assets :
    LET s == ScheduleOf(id) IN
    /\ \A i \in 1 .. Len(s) - 1 :
         s[i].accumulated_depreciation <= s[i + 1].accumulated_depreciation
    /\ \A i \in DOMAIN s :
         /\ s[i].accumulated_depreciation = assets[id].cost - s[i].ending_book_value
         /\ s[i].ending_book_value >= assets[id].salvage_value

C5_Witness ==
  \E id \in DOMAIN assets :
    /\ last.op = "create" /\ last.success
    /\ Len(ScheduleOf(id)) > 1
    /\ assets[id].salvage_value > 0
    /\ ScheduleOf(id)[1].accumulated_depreciation
         < ScheduleOf(id)[2].accumulated_depreciation

\* C6: the schedule of a valid asset that is not disposed has exactly
\* useful_life_years entries, for the consecutive years that start at the
\* calendar year of date_placed_in_service, so no year occurs twice
C6_YearsContiguous ==
  \A id \in DOMAIN assets :
    ~IsDisposed(assets[id]) =>
      LET s == ScheduleOf(id) IN
      /\ Len(s) = assets[id].useful_life_years
      /\ \A i \in DOMAIN s :
           s[i].year = YearOf(assets[id].date_placed_in_service) + i - 1
      /\ \A i, j \in DOMAIN s : s[i].year = s[j].year => i = j

C6_Witness ==
  \E id \in DOMAIN assets :
    /\ last.op = "create" /\ last.success
    /\ ~IsDisposed(assets[id])
    /\ Len(ScheduleOf(id)) = MaxLife
    /\ ScheduleOf(id)[1].year > BaseYear
    /\ ScheduleOf(id)[MaxLife].year = ScheduleOf(id)[1].year + MaxLife - 1

\* C7: disposing an active asset that has its full schedule, with a disposal
\* date in year Y, leaves exactly the entries of that schedule whose year is
\* at most Y, unchanged: the entry of year Y keeps its full-year expense, and a
\* year Y after the last scheduled year removes nothing
C7_DisposeKeepsEntriesUpToYear ==
  [][\A id \in DOMAIN assets :
       (/\ last'.op = "dispose" /\ last'.id = id /\ last'.success
        /\ ~IsDisposed(assets[id])
        /\ Len(depreciation_schedule[id]) = assets[id].useful_life_years)
       => LET Y == YearOf(assets'[id].disposed_date)
              old == depreciation_schedule[id]
              new == depreciation_schedule'[id]
          IN /\ \A i \in DOMAIN new : new[i] = old[i] /\ old[i].year <= Y
             /\ \A i \in DOMAIN old : old[i].year <= Y => i \in DOMAIN new]_vars

C7_Witness ==
  /\ last.op = "dispose" /\ last.success
  /\ full_before.id = last.id
  /\ Len(ScheduleOf(last.id)) = full_before.kept
  /\ full_before.kept > 0
  /\ full_before.kept < Len(full_before.schedule)
  /\ ScheduleOf(last.id)[full_before.kept].year = YearOf(assets[last.id].disposed_date)
  /\ ScheduleOf(last.id)[full_before.kept].depreciation_expense > 0

C9_NoEntryAfterDisposalYear ==
  \A id \in DOMAIN assets :
    IsDisposed(assets[id]) =>
      \A i \in DOMAIN ScheduleOf(id) :
        ScheduleOf(id)[i].year <= YearOf(assets[id].disposed_date)

\* C10: an accepted update replaces the schedule by the one generated from the
\* candidate when cost, salvage_value, useful_life_years or
\* date_placed_in_service differs from the persisted asset, and leaves every
\* persisted entry as it was when none of the four differs
C10_UpdateRegeneratesIffFinancialChange ==
  [][\A id \in DOMAIN assets :
       (last'.op = "update" /\ last'.id = id /\ last'.success)
       => IF \/ assets[id].cost # assets'[id].cost
             \/ assets[id].salvage_value # assets'[id].salvage_value
             \/ assets[id].useful_life_years # assets'[id].useful_life_years
             \/ assets[id].date_placed_in_service # assets'[id].date_placed_in_service
            THEN depreciation_schedule'[id]
                   = generate_schedule(assets'[id], CurrentYear(clock))
            ELSE depreciation_schedule'[id] = depreciation_schedule[id]]_vars

C10_Witness ==
  /\ last.op = "update" /\ last.success
  /\ last.id \in DOMAIN assets
  /\ ScheduleOf(last.id) # generate_schedule(assets[last.id], CurrentYear(clock))

\* C11: a create, update or dispose whose input fails validation returns field
\* errors and leaves every persisted asset, its disposal fields and every
\* persisted schedule exactly as they were before the call
C11_RejectedInputChangesNothing ==
  [][(last'.op \in {"create", "update", "dispose"} /\ ~last'.success)
       => /\ DOMAIN last'.errors # {}
          /\ assets' = assets
          /\ depreciation_schedule' = depreciation_schedule
          /\ next_id' = next_id]_vars

C11_Witness ==
  /\ last.op = "dispose" /\ ~last.success
  /\ "disposed_date" \in DOMAIN last.errors
  /\ last.id \in DOMAIN assets
  /\ ~IsDisposed(assets[last.id])
  /\ Len(ScheduleOf(last.id)) = assets[last.id].useful_life_years

InFlight == {w \in Writers : txn[w].pc # "idle"}

\* the committed store: what a rollback of the writes in flight restores
Committed == IF InFlight = {} THEN Store ELSE txn[CHOOSE w \in InFlight : TRUE].before

\* the store a planned operation leads to when every write of it is made
Target(t) ==
  [assets |-> IF t.op = "delete" THEN Without(t.before.assets, t.id)
              ELSE With(t.before.assets, t.id, t.row),
   schedule |-> IF t.op = "delete" THEN Without(t.before.schedule, t.id)
                ELSE IF t.regenerate THEN With(t.before.schedule, t.id, t.entries)
                ELSE t.before.schedule,
   next_id |-> IF t.op = "create" THEN t.before.next_id + 1 ELSE t.before.next_id]

\* C12: a storage failure at any step of a regenerate-and-replace (at the
\* asset write, after the old schedule is deleted, among the inserts, at the
\* commit) leaves the committed store as it was before the operation; the
\* committed store changes only when an operation succeeds, and then to the
\* new asset together with its complete new schedule
C12_FailedReplaceLeavesCommittedPair ==
  [][/\ \A w \in Writers :
          (txn[w].pc # "idle" /\ txn'[w].pc = "idle" /\ ~last'.success)
            => [assets |-> assets', schedule |-> depreciation_schedule',
                next_id |-> next_id'] = txn[w].before
     /\ \/ Committed' = Committed
        \/ \E w \in Writers :
             /\ txn[w].pc = "commit" /\ txn'[w].pc = "idle" /\ last'.success
             /\ Committed' = Target(txn[w])]_vars

C12_Witness ==
  /\ last.op = "update" /\ ~last.success
  /\ "storage" \in DOMAIN last.errors
  /\ last.errors["storage"] = "insert"
  /\ InFlight = {}
  /\ last.id \in DOMAIN assets
  /\ ~IsDisposed(assets[last.id])
  /\ ScheduleOf(last.id) = generate_schedule(assets[last.id], CurrentYear(clock))

\* C13: at most one create, update, dispose or delete holds the store at a
\* time, and holds it from its validation to its last schedule write; a read
\* never returns a state of the store taken inside such a span
C13_WritesSerializedReadsCommitted ==
  /\ Cardinality(InFlight) <= 1
  /\ \A w \in InFlight : lock = w
  /\ seen.reader # "none" => seen.store = Committed

C13_Witness ==
  /\ seen.reader # "none"
  /\ last.op = "update" /\ last.success
  /\ last.id \in DOMAIN seen.store.assets
  /\ seen.store = Store
  /\ \E w \in Writers : txn[w].pc = "idle" /\ LockFree(lock)

\* C14: delete removes the asset and every schedule entry of it in one step,
\* nothing blocks the delete of an existing asset, and after any sequence of
\* operations every persisted schedule entry belongs to an existing asset
C14_DeleteLeavesNoOrphans ==
  /\ DOMAIN depreciation_schedule \subseteq DOMAIN assets
  /\ \A id \in DOMAIN assets : ENABLED delete_asset(id)
  /\ last.op = "delete" =>
       /\ last.success
       /\ last.id \notin DOMAIN assets
       /\ last.id \notin DOMAIN depreciation_schedule

C14_Witness ==
  /\ last.op = "delete"
  /\ full_before = NoSnapshot
  /\ next_id > last.id
  /\ last.id \notin DOMAIN assets \cup DOMAIN depreciation_schedule

\* C15: the delete of a category that an asset references is refused with one
\* error and changes nothing, and after any sequence of category and asset
\* operations the category reference of every asset is absent or names an
\* existing category
C15_ReferencedCategoryIsKept ==
  [][/\ \A a \in DOMAIN assets' :
          assets'[a].category_id.some
            => assets'[a].category_id.val \in DOMAIN categories'
     /\ \A k \in DOMAIN categories :
          (\E a \in DOMAIN assets : assets[a].category_id = Some(k))
            => k \in DOMAIN categories'
     /\ (last'.op = "delete_category" /\ ~last'.success) =>
          /\ Cardinality(DOMAIN last'.errors) = 1
          /\ UNCHANGED <<assets, depreciation_schedule, next_id, category_table, import_file>>]_vars

C15_Witness ==
  /\ last.op = "delete_category" /\ ~last.success
  /\ \E a \in DOMAIN assets : assets[a].category_id = Some(last.id)
  /\ last.id \in DOMAIN categories

RowIsValid(i) == validateAsset(file_rows[i], clock).success

ValidRows == {i \in DOMAIN file_rows : RowIsValid(i)}

\* the number of valid rows among the first i rows of the file
ValidUpTo(i) == Cardinality({j \in ValidRows : j <= i})

\* C16: an import of N rows persists every valid row with its schedule,
\* whatever precedes it in the file, reports for every invalid row one error
\* that names the row and persists nothing for it, and reports as imported
\* the number of valid rows
C16_ImportIsRowByRow ==
  last.op = "import" =>
    /\ import_result.imported = Cardinality(ValidRows)
    /\ DOMAIN assets = 1 .. Cardinality(ValidRows)
    /\ \A i \in ValidRows :
         /\ assets[ValidUpTo(i)] = Stored(validateAsset(file_rows[i], clock).data)
         /\ ScheduleOf(ValidUpTo(i))
              = generate_schedule(assets[ValidUpTo(i)], CurrentYear(clock))
    /\ Len(import_result.errors) = Len(file_rows) - Cardinality(ValidRows)
    /\ \A i \in DOMAIN file_rows \ ValidRows :
         /\ import_result.errors[i - ValidUpTo(i)].row = i
         /\ DOMAIN import_result.errors[i - ValidUpTo(i)].errors # {}

C16_Witness ==
  /\ last.op = "import"
  /\ Len(file_rows) = MaxRows
  /\ ValidRows = {1, MaxRows}
  /\ import_result.imported = 2
  /\ Len(import_result.errors) = MaxRows - 2
  /\ import_result.errors[1].row = 2
  /\ "cost" \in DOMAIN import_result.errors[1].errors
  /\ DOMAIN assets = {1, 2}

\* the rules of the data model, field by field, on the request under
\* validation and the caller's calendar date
NameOk == Len(Trim(request.name)) \in 1 .. NameMax

ServiceDateOk ==
  /\ request.date_placed_in_service.kind = "date"
  /\ request.date_placed_in_service.day <= LocalToday(clock)

CostOk == request.cost > 0

SalvageOk == request.salvage_value >= 0 /\ request.salvage_value <= request.cost

LifeOk == request.useful_life_years % LifeUnits = 0 /\ request.useful_life_years > 0

DisposalValueOk == ~request.disposed_value.some \/ request.disposed_value.val >= 0

DisposalDateOk ==
  /\ request.disposed_date.kind = "date"
  /\ request.disposed_date.day <= LocalToday(clock)
  /\ request.date_placed_in_service.kind = "date"
  /\ request.disposed_date.day >= request.date_placed_in_service.day

DisposalOk ==
  /\ request.disposed_date = UndefinedDate \/ DisposalDateOk
  /\ DisposalValueOk

Rejected(field) == ~last.success /\ field \in DOMAIN last.errors

\* C17: validate_asset rejects every candidate whose salvage_value exceeds
\* its cost, with an error under salvage_value, and accepts a candidate whose
\* salvage_value equals its cost when every other field is valid
C17_SalvageAtMostCost ==
  last.op = "validate_asset" =>
    /\ request.salvage_value > request.cost => Rejected("salvage_value")
    /\ (/\ request.salvage_value = request.cost
        /\ NameOk /\ ServiceDateOk /\ CostOk /\ LifeOk /\ DisposalOk)
         => last.success

C17_Witness ==
  /\ last.op = "validate_asset" /\ last.success
  /\ request.salvage_value = request.cost
  /\ request.cost = MaxCost

\* C18: validate_asset rejects every candidate whose useful_life_years is
\* zero, negative or not a whole number, with an error under
\* useful_life_years, and accepts every whole number of years from 1 up when
\* every other field is valid
C18_LifeIsPositiveInteger ==
  last.op = "validate_asset" =>
    /\ ~LifeOk => Rejected("useful_life_years")
    /\ (LifeOk /\ NameOk /\ ServiceDateOk /\ CostOk /\ SalvageOk /\ DisposalOk)
         => last.success

C18_Witness ==
  /\ last.op = "validate_asset"
  /\ request.useful_life_years = Years(1) + 1
  /\ NameOk /\ ServiceDateOk /\ CostOk /\ SalvageOk /\ DisposalOk
  /\ DOMAIN last.errors = {"useful_life_years"}
  /\ last.errors["useful_life_years"] = "Useful life must be a whole number"

\* C19: validation rejects date_placed_in_service and disposed_date exactly
\* when the calendar date is after the caller's calendar date of today, and
\* accepts today's date, at every time of day and every offset of the
\* caller's local time from UTC
C19_FutureDatesRejected ==
  /\ (/\ last.op \in {"validate_asset", "validate_disposal"}
      /\ request.disposed_date.kind = "date"
      /\ request.disposed_date.day > LocalToday(clock))
       => Rejected("disposed_date")
  /\ (/\ last.op = "validate_asset"
      /\ request.date_placed_in_service.kind = "date"
      /\ request.date_placed_in_service.day > LocalToday(clock))
       => Rejected("date_placed_in_service")
  /\ (/\ last.op = "validate_asset"
      /\ request.date_placed_in_service = DayDate(LocalToday(clock))
      /\ NameOk /\ CostOk /\ SalvageOk /\ LifeOk /\ DisposalOk)
       => last.success
  /\ (/\ last.op = "validate_disposal"
      /\ request.disposed_date = DayDate(LocalToday(clock))
      /\ DisposalDateOk /\ DisposalValueOk)
       => last.success

\* C20: validate_asset and validate_disposal reject a disposal date before
\* date_placed_in_service with an error under disposed_date, and accept a
\* disposal date on or after the service date that is not after today
C20_DisposalNotBeforeService ==
  /\ (/\ last.op \in {"validate_asset", "validate_disposal"}
      /\ request.disposed_date.kind = "date"
      /\ request.date_placed_in_service.kind = "date"
      /\ request.disposed_date.day < request.date_placed_in_service.day)
       => Rejected("disposed_date")
  /\ (/\ last.op = "validate_asset"
      /\ DisposalDateOk /\ DisposalValueOk
      /\ NameOk /\ ServiceDateOk /\ CostOk /\ SalvageOk /\ LifeOk)
       => last.success
  /\ (last.op = "validate_disposal" /\ DisposalDateOk /\ DisposalValueOk)
       => last.success

C20_Witness ==
  /\ last.op = "validate_disposal" /\ ~last.success
  /\ request.disposed_date.kind = "date"
  /\ request.disposed_date.day <= LocalToday(clock)
  /\ request.date_placed_in_service.kind = "date"
  /\ request.disposed_date.day = request.date_placed_in_service.day - 1
  /\ last.errors["disposed_date"]
       = "Disposal date must be on or after the date placed in service"

\* C21: validation reports every violation at once: after a validation each
\* field that breaks one of its rules, the rules across two fields included,
\* has an entry in the error map whatever other fields fail with it, a field
\* that breaks none has no entry, and the candidate is accepted exactly when
\* no field has an entry
C21_AllViolationsCollected ==
  /\ last.op = "validate_asset" =>
       /\ "name" \in DOMAIN last.errors <=> ~NameOk
       /\ "date_placed_in_service" \in DOMAIN last.errors <=> ~ServiceDateOk
       /\ "cost" \in DOMAIN last.errors <=> ~CostOk
       /\ "salvage_value" \in DOMAIN last.errors <=> ~SalvageOk
       /\ "useful_life_years" \in DOMAIN last.errors <=> ~LifeOk
       /\ "disposed_date" \in DOMAIN last.errors
            <=> ~(request.disposed_date = UndefinedDate \/ DisposalDateOk)
       /\ "disposed_value" \in DOMAIN last.errors <=> ~DisposalValueOk
  /\ last.op = "validate_disposal" =>
       /\ "disposed_date" \in DOMAIN last.errors <=> ~DisposalDateOk
       /\ "disposed_value" \in DOMAIN last.errors <=> ~DisposalValueOk
  /\ last.op \in {"validate_asset", "validate_disposal"} =>
       (last.success <=> DOMAIN last.errors = {})

\* C22: the gain or loss the detail view shows for a disposed asset with a
\* disposed_value is the disposed_value minus the book value at disposal:
\* the beginning_book_value of the schedule entry of the calendar year of
\* the disposal date or, when that year is after the last entry, the
\* ending_book_value of the last entry
C22_GainLossAgainstBookValue ==
  (view.name = "detail" /\ view.disposed /\ view.hasGainLoss) =>
    LET s == view.schedule
        Y == YearOf(view.asset.disposed_date)
        at == {i \in DOMAIN s : s[i].year = Y}
    IN view.gainLoss =
         view.asset.disposed_value.val
           - (IF at # {} THEN s[CHOOSE i \in at : TRUE].beginning_book_value
              ELSE s[Len(s)].ending_book_value)

\* the assets that can contribute to year y: those that exist and are not
\* disposed of in a year before y
Contributors(y) ==
  {id \in DOMAIN assets :
     ~IsDisposed(assets[id]) \/ YearOf(assets[id].disposed_date) >= y}

\* C23: the annual summary read from the store has, for each year, the sum
\* of the depreciation_expense of the current schedule entries of that year
\* over the existing assets, and nothing from an asset for a year after the
\* year it was disposed of in, or from a deleted asset
C23_AggregatesFollowCurrentSchedules ==
  view.name = "summary" =>
    /\ \A id \in DOMAIN assets : \A i \in DOMAIN ScheduleOf(id) :
         ScheduleOf(id)[i].year \in DOMAIN view.rows
    /\ \A y \in DOMAIN view.rows :
         /\ view.rows[y].total_depreciation
              = SumOver([id \in DOMAIN assets |-> ExpenseIn(ScheduleOf(id), y)],
                        DOMAIN assets)
         /\ view.rows[y].total_depreciation
              = SumOver([id \in DOMAIN assets |-> ExpenseIn(ScheduleOf(id), y)],
                        Contributors(y))

\* C24: the result of a validation depends only on the candidate and on the
\* caller's current date: every wall clock and offset from UTC under which
\* the caller's calendar date of today is the same gives the same result
C24_ResultDependsOnCandidateAndToday ==
  /\ last.op = "validate_asset" =>
       \A c \in ValClocks :
         LocalToday(c) = LocalToday(clock)
           => Outcome("validate_asset", 0, validateAsset(request, c)) = last
  /\ last.op = "validate_disposal" =>
       \A c \in ValClocks :
         LocalToday(c) = LocalToday(clock)
           => Outcome("validate_disposal", 0,
                      validateDispose(request.disposed_date, request.disposed_value,
                                      request.date_placed_in_service, c)) = last

\* the validation engine accepts what a command carries
AcceptedByEngine(cmd, rows, c) ==
  IF cmd.command \in {"create_asset", "update_asset"}
    THEN validateAsset(cmd.asset, c).success
  ELSE IF cmd.command = "dispose_asset"
    THEN validateDispose(cmd.disposed_date, cmd.disposed_value,
                         rows[cmd.id].date_placed_in_service, c).success
  ELSE TRUE

\* the step only removes entries from the error map
OnlyDropsErrors(before, after) ==
  /\ DOMAIN after \subseteq DOMAIN before
  /\ \A k \in DOMAIN after : after[k] = before[k]

\* C25: every command the asset form and the dispose dialog send to
\* create_asset, update_asset or dispose_asset carries a candidate the
\* validation engine accepted, and a submit of a candidate the engine
\* rejects stores the returned error map and sends nothing
C25_OnlyAcceptedCandidatesAreSent ==
  [][/\ sent' # NoSent => AcceptedByEngine(sent', assets, clock)
     /\ (/\ editingAsset # NoAsset
         /\ editingAsset' = editingAsset
         /\ ~validateAsset(AssetFields(editingAsset), clock).success
         /\ ~OnlyDropsErrors(errors, errors'))
          => /\ errors' = validateAsset(AssetFields(editingAsset), clock).errors
             /\ sent' = NoSent
             /\ UNCHANGED <<assets, depreciation_schedule, next_id, last>>
     /\ (/\ disposing.open
         /\ disposing'.open
         /\ disposing'.disposedDate = disposing.disposedDate
         /\ ~OnlyDropsErrors(disposing.errors, disposing'.errors))
          => /\ disposing'.errors =
                  validateDispose(disposing.disposedDate, disposing.disposedValue,
                                  assets[disposing.id].date_placed_in_service,
                                  clock).errors
             /\ disposing'.errors # NoErrors
             /\ sent' = NoSent
             /\ UNCHANGED <<assets, depreciation_schedule, next_id, last>>]_vars

\* C26: after Status = Active is selected in the asset form, the asset under
\* edit has neither a disposed_date nor a disposed_value
C26_StatusActiveClearsDisposal ==
  [][(/\ editingAsset # NoAsset
      /\ editingAsset' # NoAsset
      /\ ~Falsy(editingAsset.disposed_date)
      /\ \/ Falsy(editingAsset'.disposed_date)
         \/ (editingAsset.disposed_value.some /\ ~editingAsset'.disposed_value.some))
       => /\ Falsy(editingAsset'.disposed_date)
          /\ ~editingAsset'.disposed_value.some]_vars

\* C27: the book value the asset list shows for an asset and its schedule in
\* the current year is at most the book value it shows for them in any
\* earlier year, and once the current year is after the last schedule entry
\* it is the ending_book_value of that entry
C27_ListBookValueNeverIncreases ==
  view.name = "list" =>
    \A id \in DOMAIN view.rows :
      LET row == view.rows[id]
          s == row.schedule
      IN /\ \A y \in BaseYear .. view.currentYear :
              row.bookValue <= bookValue(row.asset, s, y)
         /\ (s # <<>> /\ view.currentYear > s[Len(s)].year)
              => row.bookValue = s[Len(s)].ending_book_value

\* the length of an optional text after trimming is within the ceiling
WithinCeiling(text, max) == ~text.some \/ Len(Trim(text.val)) <= max

\* C28: the length ceilings of the string fields apply to the trimmed value:
\* a name (200), description (500), notes (2000) or category name (100)
\* whose trimmed length is within its ceiling gets no error, whatever
\* whitespace surrounds it, and one whose trimmed length is above it gets one
C28_CeilingsOnTrimmedStrings ==
  /\ last.op = "validate_asset" =>
       /\ "name" \in DOMAIN last.errors <=> Len(Trim(request.name)) \notin 1 .. NameMax
       /\ "description" \in DOMAIN last.errors
            <=> ~WithinCeiling(request.description, DescriptionMax)
       /\ "notes" \in DOMAIN last.errors <=> ~WithinCeiling(request.notes, NotesMax)
  /\ last.op = "validate_category" =>
       ("name" \in DOMAIN last.errors
          <=> Len(Trim(request.name)) \notin 1 .. CategoryNameMax)

\* C29: for every non-empty annual summary, every time range and every
\* current year, the year range the dashboard and the analysis view compute
\* for display lies inside the summary in order:
\* minYear <= startYear <= endYear <= maxYear
C29_YearRangeInsideSummary ==
  (view.name \in {"dashboard", "analysis"} /\ DOMAIN view.annualSummary # {}) =>
    LET info == view.yearRangeInfo IN
    /\ ~info.null
    /\ \E minYear, maxYear \in DOMAIN view.annualSummary :
         /\ \A y \in DOMAIN view.annualSummary : minYear <= y /\ y <= maxYear
         /\ minYear <= info.startYear
         /\ info.startYear <= info.endYear
         /\ info.endYear <= maxYear

\* C30: after any sequence of typing, arrow-key, plus and minus events, every
\* numeric value NumberInput passes to onChange lies within [min, max] for
\* whichever bounds are set; with min = 1 it never emits 0
C30_EmittedWithinBounds ==
  (numberInput.mounted /\ numberInput.emitted.kind = "number") =>
    /\ numberInput.min.some => numberInput.emitted.val >= numberInput.min.val
    /\ numberInput.max.some => numberInput.emitted.val <= numberInput.max.val

====
